---------------------------- MODULE Spec2Model ----------------------------
(***************************************************************************)
(* A model of the gzdec element (src/src/gstgzdec.c, src/src/gstgzdec.h):  *)
(* the chain function, the sink event function, the two codec wrappers     *)
(* (zlib and bzlib) and the instance they work on.                         *)
(*                                                                         *)
(* Byte strings are kept run-length encoded (a sequence of runs            *)
(* [b |-> byte, n |-> count], no empty run, no two adjacent runs of the    *)
(* same byte), so that OUT_BUF_SIZE keeps the value the header gives it.   *)
(* A compressed stream is a sequence of symbols: a header symbol of its    *)
(* family, one symbol per run and a trailer symbol carrying the length of  *)
(* the payload, which the decoder checks.                                  *)
(***************************************************************************)
EXTENDS Integers, Sequences, FiniteSets, TLC

(***************************************************************************)
(* Bounds of the model.                                                    *)
(***************************************************************************)
\* runs of equal bytes in the payload of one stream
MaxRuns == 2
\* compressed streams fed to one instance
MaxStreams == 2
\* the iterations of a drain loop in which a resource or the decoder may fail
MaxFail == 2

(***************************************************************************)
(* Program constants.                                                      *)
(***************************************************************************)
OUT_BUF_SIZE == 4096

GST_FLOW_OK == "GST_FLOW_OK"
GST_FLOW_ERROR == "GST_FLOW_ERROR"
GST_FLOW_NOT_NEGOTIATED == "GST_FLOW_NOT_NEGOTIATED"
GST_FLOW_EOS == "GST_FLOW_CUSTOM_SUCCESS"

Min(a, b) == IF a <= b THEN a ELSE b

(***************************************************************************)
(* Byte strings as run lists.                                              *)
(***************************************************************************)
AppendRun(out, b, n) ==
  IF n = 0 THEN out
  ELSE IF out # <<>> /\ out[Len(out)].b = b
       THEN [out EXCEPT ![Len(out)].n = @ + n]
       ELSE Append(out, [b |-> b, n |-> n])

RECURSIVE CatRuns(_, _)
CatRuns(x, y) ==
  IF y = <<>> THEN x
  ELSE CatRuns(AppendRun(x, Head(y).b, Head(y).n), Tail(y))

RECURSIVE RunsLen(_)
RunsLen(x) == IF x = <<>> THEN 0 ELSE Head(x).n + RunsLen(Tail(x))

\* the first n bytes of x
RECURSIVE TakeRuns(_, _)
TakeRuns(x, n) ==
  IF n = 0 \/ x = <<>> THEN <<>>
  ELSE IF Head(x).n >= n THEN <<[b |-> Head(x).b, n |-> n]>>
       ELSE <<Head(x)>> \o TakeRuns(Tail(x), n - Head(x).n)

(***************************************************************************)
(* The compressed formats.  Sym(k, b, n) is one symbol of a compressed     *)
(* stream.                                                                 *)
(***************************************************************************)
Sym(k, b, n) == [k |-> k, b |-> b, n |-> n]

Families == {"gzip", "bzip2"}

HeaderOf(fam) == IF fam = "gzip" THEN "gzhdr" ELSE "bzhdr"

\* compress_F(P)
Compress(fam, P) ==
  <<Sym(HeaderOf(fam), 0, 0)>>
    \o [i \in 1..Len(P) |-> Sym("run", P[i].b, P[i].n)]
    \o <<Sym("end", 0, RunsLen(P))>>

(***************************************************************************)
(* The native decoders.  A decoder is [live, mode, b, left, total_out]:    *)
(* live is whether the native state is allocated (state # NULL), mode the  *)
(* place in the stream, (b, left) the bytes decoded and not yet delivered. *)
(* Decode runs one decode call on `in` with `room` bytes of output space   *)
(* and reports "ok" (stopped for want of input or of room), "end" or       *)
(* "data_error".                                                           *)
(***************************************************************************)
NullStream == [live |-> FALSE, mode |-> "HEAD", b |-> 0, left |-> 0,
               total_out |-> 0]

RECURSIVE Decode(_, _, _, _, _)
Decode(s, in, room, out, hdr) ==
  LET stop(st, i) == [strm |-> s, in |-> i, avail_out |-> room, out |-> out,
                      status |-> st]
      bad(i) == [strm |-> [s EXCEPT !.mode = "BAD"], in |-> i,
                 avail_out |-> room, out |-> out, status |-> "data_error"]
  IN
  IF s.mode = "COPY" THEN
    IF room = 0 THEN stop("ok", in)
    ELSE LET n == Min(s.left, room) IN
         Decode([s EXCEPT !.left = @ - n, !.total_out = @ + n,
                          !.mode = IF s.left = n THEN "RUN" ELSE "COPY"],
                in, room - n, AppendRun(out, s.b, n), hdr)
  ELSE IF s.mode = "DONE" THEN stop("end", in)
  ELSE IF s.mode = "BAD" THEN stop("data_error", in)
  ELSE IF in = <<>> THEN stop("ok", in)
  ELSE LET t == Head(in) IN
    IF s.mode = "HEAD" THEN
      IF t.k = hdr
      THEN Decode([s EXCEPT !.mode = "RUN"], Tail(in), room, out, hdr)
      ELSE bad(Tail(in))
    ELSE \* s.mode = "RUN"
      IF t.k = "run" /\ t.n > 0
      THEN Decode([s EXCEPT !.mode = "COPY", !.b = t.b, !.left = t.n],
                  Tail(in), room, out, hdr)
      ELSE IF t.k = "end" /\ t.n = s.total_out
      THEN [strm |-> [s EXCEPT !.mode = "DONE"], in |-> Tail(in),
            avail_out |-> room, out |-> out, status |-> "end"]
      ELSE bad(Tail(in))

\* inflateInit2: ok is whether the native allocation succeeds
inflateInit2(strm, ok) ==
  IF ok THEN [NullStream EXCEPT !.live = TRUE] ELSE strm

\* inflateEnd frees the native state; the counters of the z_stream stay
inflateEnd(strm) == [NullStream EXCEPT !.total_out = strm.total_out]

inflate(strm, in, avail_out) ==
  IF ~strm.live
  THEN [strm |-> strm, in |-> in, avail_out |-> avail_out, out |-> <<>>,
        status |-> "Z_STREAM_ERROR"]
  ELSE LET r == Decode(strm, in, avail_out, <<>>, "gzhdr") IN
       [r EXCEPT !.status =
          IF r.status = "end" THEN "Z_STREAM_END"
          ELSE IF r.status = "data_error" THEN "Z_DATA_ERROR"
          ELSE IF r.in = in /\ r.avail_out = avail_out THEN "Z_BUF_ERROR"
          ELSE "Z_OK"]

BZ2_bzDecompressInit(strm, ok) ==
  IF ok THEN [NullStream EXCEPT !.live = TRUE] ELSE strm

BZ2_bzDecompressEnd(strm) == [NullStream EXCEPT !.total_out = strm.total_out]

BZ2_bzDecompress(strm, in, avail_out) ==
  IF ~strm.live
  THEN [strm |-> strm, in |-> in, avail_out |-> avail_out, out |-> <<>>,
        status |-> "BZ_PARAM_ERROR"]
  ELSE LET r == Decode(strm, in, avail_out, <<>>, "bzhdr") IN
       [r EXCEPT !.status =
          IF r.status = "end" THEN "BZ_STREAM_END"
          ELSE IF r.status = "data_error" THEN "BZ_DATA_ERROR"
          ELSE "BZ_OK"]

(***************************************************************************)
(* Buffers.  An input buffer is [data, pts, offset]; an output buffer is   *)
(* [kind, offset, pts, mems], mems the memory blocks appended to it, each  *)
(* a byte string.  NoBuffer stands for a pointer that is no buffer and     *)
(* StaleBuffer for a pointer to a buffer that was given away earlier.      *)
(***************************************************************************)
NoBuffer == [kind |-> "undefined", offset |-> 0, pts |-> 0, mems |-> <<>>]

StaleBuffer == [kind |-> "stale", offset |-> 0, pts |-> 0, mems |-> <<>>]

\* a null pointer where a buffer is expected
NullBuffer == [kind |-> "null", offset |-> 0, pts |-> 0, mems |-> <<>>]

gst_buffer_new == [kind |-> "buffer", offset |-> 0, pts |-> 0, mems |-> <<>>]

\* gst_pad_push(filter->srcpad, outbuf): what goes downstream; a null pointer
\* is turned away by the pad
gst_pad_push(outbuf) == IF outbuf.kind = "null" THEN <<>> ELSE <<outbuf>>

\* gst_buffer_copy_into(inbuf, outbuf, GST_BUFFER_COPY_METADATA, 0, -1):
\* GST_BUFFER_COPY_TIMESTAMPS copies pts, dts, duration, offset and offset_end
\* when the whole buffer is copied
gst_buffer_copy_into(inbuf, outbuf) ==
  [outbuf EXCEPT !.pts = inbuf.pts, !.offset = inbuf.offset]

\* gst_memory_resize(memory_block, 0, size) on the block the decoder wrote
gst_memory_resize(data, size) == TakeRuns(data, size)

RECURSIVE CatMems(_)
CatMems(mems) ==
  IF mems = <<>> THEN <<>> ELSE CatRuns(Head(mems), CatMems(Tail(mems)))

\* the payload of an output buffer
Payload(buf) == CatMems(buf.mems)

(***************************************************************************)
(* The gzip wrapper.                                                       *)
(***************************************************************************)
\* zlib_init_encoder returning the status of inflateInit2 (Z_OK is 0) as its
\* boolean
zlib_init_encoder_status(filter, native_ok) ==
  [filter |-> [filter EXCEPT
                 !.zlib_stream = inflateInit2(filter.zlib_stream, native_ok)],
   ok |-> ~native_ok]

zlib_init_encoder(filter, native_ok) ==
  [filter |-> [filter EXCEPT
                 !.zlib_stream = inflateInit2(filter.zlib_stream, native_ok)],
   ok |-> TRUE]

\* zlib_free_encoder leaving the native decoder allocated
zlib_free_encoder_leak(filter) == filter

zlib_free_encoder(filter) ==
  [filter EXCEPT !.zlib_stream = inflateEnd(filter.zlib_stream)]

\* the drain loop leaving at Z_STREAM_END before it appends the block
RECURSIVE zlib_loop_break(_, _, _, _, _, _, _)
zlib_loop_break(strm, in, mems, zlib_status, iter, failat, stallat) ==
  IF Len(in) > 0 /\ zlib_status # "Z_STREAM_END" THEN
    IF iter = failat THEN [strm |-> strm, mems |-> mems, exit |-> "map_error"]
    ELSE IF iter = stallat
    THEN [strm |-> strm, mems |-> Append(mems, <<>>), exit |-> "hang"]
    ELSE LET r == inflate(strm, in, OUT_BUF_SIZE) IN
      IF r.status \notin {"Z_OK", "Z_STREAM_END", "Z_BUF_ERROR"}
      THEN [strm |-> inflateEnd(r.strm), mems |-> mems,
            exit |-> "decompress_error"]
      ELSE IF r.status = "Z_STREAM_END"
      THEN [strm |-> r.strm, mems |-> mems, exit |-> "eos"]
      ELSE zlib_loop_break(r.strm, r.in,
                           Append(mems, gst_memory_resize(r.out,
                                           OUT_BUF_SIZE - r.avail_out)),
                           r.status, iter + 1, failat, stallat)
  ELSE [strm |-> strm, mems |-> mems,
        exit |-> IF zlib_status = "Z_STREAM_END" THEN "eos" ELSE "ok"]

\* the drain loop of zlib_encode; failat is the iteration whose
\* gst_memory_map fails (0: none).  stallat is the iteration in which inflate
\* returns Z_BUF_ERROR having consumed and produced nothing (0: none): the
\* status is not an error, so an empty block is appended and the condition
\* of the loop is tested again with avail_in and the decoder as they were;
\* the loop is back where it was and does not end ("hang").
RECURSIVE zlib_loop(_, _, _, _, _, _, _)
zlib_loop(strm, in, mems, zlib_status, iter, failat, stallat) ==
  IF Len(in) > 0 /\ zlib_status # "Z_STREAM_END" THEN
    IF iter = failat THEN [strm |-> strm, mems |-> mems, exit |-> "map_error"]
    ELSE IF iter = stallat
    THEN [strm |-> strm, mems |-> Append(mems, <<>>), exit |-> "hang"]
    ELSE LET r == inflate(strm, in, OUT_BUF_SIZE) IN
      IF r.status \notin {"Z_OK", "Z_STREAM_END", "Z_BUF_ERROR"}
      THEN [strm |-> inflateEnd(r.strm), mems |-> mems,
            exit |-> "decompress_error"]
      ELSE zlib_loop(r.strm, r.in,
                     Append(mems, gst_memory_resize(r.out,
                                     OUT_BUF_SIZE - r.avail_out)),
                     r.status, iter + 1, failat, stallat)
  ELSE [strm |-> strm, mems |-> mems,
        exit |-> IF zlib_status = "Z_STREAM_END" THEN "eos" ELSE "ok"]

\* junk is what the caller's uninitialized outbuf holds
zlib_encode(filter, inbuf, fault, failat, junk) ==
  IF fault = "bufmap"
  THEN [filter |-> filter, outbuf |-> junk, ret |-> GST_FLOW_ERROR,
        exit |-> "buffer_map"]
  ELSE
    LET ret == GST_FLOW_OK
        outbuf == gst_buffer_copy_into(inbuf,
                    [gst_buffer_new EXCEPT
                       !.offset = filter.zlib_stream.total_out])
        l == zlib_loop(filter.zlib_stream, inbuf.data, <<>>, "Z_OK", 1,
                       IF fault = "memmap" THEN failat ELSE 0,
                       IF fault = "stall" THEN failat ELSE 0)
    IN [filter |-> [filter EXCEPT !.zlib_stream = l.strm],
        outbuf |-> [outbuf EXCEPT !.mems = l.mems],
        ret |-> IF l.exit = "eos" THEN GST_FLOW_EOS
                ELSE IF l.exit = "ok" THEN GST_FLOW_OK
                ELSE ret,
        exit |-> l.exit]

(***************************************************************************)
(* The bzip2 wrapper.                                                      *)
(***************************************************************************)
bzlib_init_encoder(filter, native_ok) ==
  [filter |-> [filter EXCEPT
                 !.bzlib_stream =
                    BZ2_bzDecompressInit(filter.bzlib_stream, native_ok)],
   ok |-> TRUE]

bzlib_free_encoder(filter) ==
  [filter EXCEPT !.bzlib_stream = BZ2_bzDecompressEnd(filter.bzlib_stream)]

RECURSIVE bzlib_loop(_, _, _, _, _, _)
bzlib_loop(strm, in, mems, bzlib_status, iter, failat) ==
  IF Len(in) > 0 /\ bzlib_status # "BZ_STREAM_END" THEN
    IF iter = failat THEN [strm |-> strm, mems |-> mems, exit |-> "map_error"]
    ELSE LET r == BZ2_bzDecompress(strm, in, OUT_BUF_SIZE) IN
      IF r.status # "BZ_OK" /\ r.status # "BZ_STREAM_END"
      THEN [strm |-> BZ2_bzDecompressEnd(r.strm), mems |-> mems,
            exit |-> "decompress_error"]
      ELSE bzlib_loop(r.strm, r.in,
                      Append(mems, gst_memory_resize(r.out,
                                      OUT_BUF_SIZE - r.avail_out)),
                      r.status, iter + 1, failat)
  ELSE [strm |-> strm, mems |-> mems,
        exit |-> IF bzlib_status = "BZ_STREAM_END" THEN "eos" ELSE "ok"]

bzlib_encode(filter, inbuf, fault, failat, junk) ==
  IF fault = "bufmap"
  THEN [filter |-> filter, outbuf |-> junk, ret |-> GST_FLOW_ERROR,
        exit |-> "buffer_map"]
  ELSE
    LET ret == GST_FLOW_OK
        outbuf == gst_buffer_copy_into(inbuf,
                    [gst_buffer_new EXCEPT
                       !.offset = filter.zlib_stream.total_out])
        l == bzlib_loop(filter.bzlib_stream, inbuf.data, <<>>, "BZ_OK", 1,
                        IF fault = "memmap" THEN failat ELSE 0)
    IN [filter |-> [filter EXCEPT !.bzlib_stream = l.strm],
        outbuf |-> [outbuf EXCEPT !.mems = l.mems],
        ret |-> IF l.exit = "eos" THEN GST_FLOW_EOS
                ELSE IF l.exit = "ok" THEN GST_FLOW_OK
                ELSE IF l.exit = "decompress_error" THEN GST_FLOW_ERROR
                ELSE ret,
        exit |-> l.exit]

(***************************************************************************)
(* The element: construction, the chain function, the sink event function. *)
(***************************************************************************)
\* the instance after gst_gzdec_init
gst_gzdec_init ==
  [in_progress |-> FALSE,
   zlib_stream |-> NullStream,
   bzlib_stream |-> NullStream,
   init_encoder |-> "zlib_init_encoder",
   free_encoder |-> "zlib_free_encoder",
   encode |-> "zlib_encode"]

\* calls through the function pointers of the instance
CallInit(filter, native_ok) ==
  IF filter.init_encoder = "zlib_init_encoder"
  THEN zlib_init_encoder(filter, native_ok)
  ELSE bzlib_init_encoder(filter, native_ok)

CallFree(filter) ==
  IF filter.free_encoder = "zlib_free_encoder"
  THEN zlib_free_encoder(filter)
  ELSE bzlib_free_encoder(filter)

CallEncode(filter, inbuf, fault, failat, junk) ==
  IF filter.encode = "zlib_encode"
  THEN zlib_encode(filter, inbuf, fault, failat, junk)
  ELSE bzlib_encode(filter, inbuf, fault, failat, junk)

\* gst_gzdec_chain from gst_pad_push on: e is what the encode function
\* returned (the instance, *outbuf, the return value, the path it left by)
gst_gzdec_chain_push(filter, e) ==
  IF e.exit = "hang"
  THEN \* the encode function never returns
       [filter |-> e.filter, pushed |-> <<>>, ret |-> "none",
        init |-> ~filter.in_progress, exit |-> e.exit,
        encode |-> filter.encode]
  ELSE
  [filter |-> IF e.ret = GST_FLOW_EOS
              THEN [CallFree(e.filter) EXCEPT !.in_progress = FALSE]
              ELSE e.filter,
   pushed |-> gst_pad_push(e.outbuf), ret |-> e.ret,
   init |-> ~filter.in_progress, exit |-> e.exit,
   encode |-> filter.encode]

\* gst_gzdec_chain from the test of init_encoder's result on: i is what the
\* back-end's init returned, or the instance as it was when in_progress
gst_gzdec_chain_encode(filter, i, buf, fault, failat, junk) ==
  IF ~i.ok
  THEN [filter |-> filter, pushed |-> <<>>, ret |-> GST_FLOW_NOT_NEGOTIATED,
        init |-> TRUE, exit |-> "not_supported", encode |-> "none"]
  ELSE gst_gzdec_chain_push(filter,
         CallEncode([i.filter EXCEPT !.in_progress = TRUE],
                    buf, fault, failat, junk))

\* gst_gzdec_chain on buf: the instance afterwards, what was pushed on the
\* source pad, the return value, and how the call went (init: the back-end's
\* init was called; exit: the path the encode function left by)
gst_gzdec_chain(filter, buf, fault, failat, junk) ==
  gst_gzdec_chain_encode(filter,
    IF ~filter.in_progress
    THEN CallInit(filter, fault # "init")
    ELSE [filter |-> filter, ok |-> TRUE],
    buf, fault, failat, junk)

\* the sink event function falling back to the default back-end on a label
\* it does not know
gst_gzdec_sink_event_default(filter, label) ==
  IF label = "application/x-bzip2"
  THEN [filter |-> [filter EXCEPT !.init_encoder = "bzlib_init_encoder",
                                  !.free_encoder = "bzlib_free_encoder",
                                  !.encode = "bzlib_encode"],
        ret |-> TRUE]
  ELSE [filter |-> [filter EXCEPT !.init_encoder = "zlib_init_encoder",
                                  !.free_encoder = "zlib_free_encoder",
                                  !.encode = "zlib_encode"],
        ret |-> label = "application/x-gzip"]

\* gst_gzdec_sink_event on a GST_EVENT_CAPS event whose structure is named
\* label: the instance afterwards and the return value
gst_gzdec_sink_event(filter, label) ==
  IF label = "application/x-gzip"
  THEN [filter |-> [filter EXCEPT !.init_encoder = "zlib_init_encoder",
                                  !.free_encoder = "zlib_free_encoder",
                                  !.encode = "zlib_encode"],
        ret |-> TRUE]
  ELSE IF label = "application/x-bzip2"
  THEN [filter |-> [filter EXCEPT !.init_encoder = "bzlib_init_encoder",
                                  !.free_encoder = "bzlib_free_encoder",
                                  !.encode = "bzlib_encode"],
        ret |-> TRUE]
  ELSE [filter |-> filter, ret |-> FALSE]

(***************************************************************************)
(* The state.                                                              *)
(*   filter  the GstGzdec instance                                         *)
(*   alive   the instance has not been destroyed                           *)
(*   up      the upstream peer: the compressed stream it is sending, what  *)
(*           is left of it, and how the stream went so far                 *)
(*   last    the last call into the element: what it was given, what it    *)
(*           returned and what it pushed on the source pad                 *)
(*   hist    a digest of what was pushed on the source pad so far: the     *)
(*           bytes pushed since the stream began (payload) and their       *)
(*           number since a back-end's init was last called (session_out)  *)
(*   shadow  a second instance, constructed when the current stream began  *)
(*           and given the same calls since                                *)
(***************************************************************************)
VARIABLES filter, alive, up, last, hist, shadow

vars == <<filter, alive, up, last, hist, shadow>>

Labels == {"application/x-gzip", "application/x-bzip2", "application/x-7z"}

LabelOf(fam) ==
  IF fam = "gzip" THEN "application/x-gzip" ELSE "application/x-bzip2"

EncodeOf(fam) == IF fam = "gzip" THEN "zlib_encode" ELSE "bzlib_encode"

RunLens == {1, OUT_BUF_SIZE}

\* the payloads of n runs: the bytes of adjacent runs differ
PayloadsOf(n) ==
  {[i \in 1..n |-> [b |-> 65 + (i % 2), n |-> l[i]]] : l \in [1..n -> RunLens]}

Payloads == UNION {PayloadsOf(n) : n \in 0..MaxRuns}

\* compress_fam(P) with its symbol number corrupt (0: none) damaged
Damaged(fam, P, corrupt) ==
  [i \in 1..Len(Compress(fam, P)) |->
     IF i = corrupt THEN Sym("bad", 0, 0) ELSE Compress(fam, P)[i]]

EventItem(type) == [kind |-> type, offset |-> 0, pts |-> 0, mems |-> <<>>]

NoCall == [op |-> "none", flow |-> "", handled |-> FALSE, label |-> "",
           exit |-> "", init |-> FALSE, encode |-> "", before |-> FALSE,
           pushed |-> <<>>, first |-> FALSE, produced |-> 0, same |-> TRUE,
           firstpts |-> 0, initfailed |-> FALSE, dead |-> FALSE]

\* the upstream peer at the start of its stream number n
Upstream(n, fam, P, corrupt, prev) ==
  [n |-> n, fam |-> fam, payload |-> P, rest |-> Damaged(fam, P, corrupt),
   pos |-> 0, clean |-> corrupt = 0, fin |-> "open", extra |-> FALSE,
   prevfin |-> prev.fin, prevextra |-> prev.extra, started |-> FALSE,
   fresh |-> FALSE, encodes |-> {}, announced |-> FALSE]

Init ==
  /\ filter = gst_gzdec_init
  /\ alive = TRUE
  /\ \E fam \in Families, P \in Payloads :
       \E corrupt \in 0..(Len(P) + 2) :
         up = Upstream(1, fam, P, corrupt, [fin |-> "none", extra |-> FALSE])
  /\ last = NoCall
  /\ hist = [fed |-> FALSE,
             accepted |-> FALSE, session_out |-> 0, payload |-> <<>>,
             owed |-> 0]
  /\ shadow = gst_gzdec_init

\* the instance exists and its streaming thread is not stuck in a call
Running == alive /\ last.exit # "hang"

\* the native decoder the encode function named encode works on
StreamOf(f, encode) ==
  IF encode = "bzlib_encode" THEN f.bzlib_stream ELSE f.zlib_stream

\* the decoder holds decoded bytes it has not delivered yet
Pending(strm) == strm.live /\ strm.mode = "COPY" /\ strm.left > 0

\* what a call of the chain function leaves behind: buf went in, r is what
\* the instance did with it and rs what the second instance did
ChainDone(k, r, rs, pay, before, initfailed) ==
  /\ filter' = r.filter
  /\ shadow' = rs.filter
  /\ last' = [op |-> "chain", flow |-> r.ret, handled |-> FALSE,
              label |-> "", exit |-> r.exit, init |-> r.init,
              encode |-> r.encode, before |-> filter.in_progress,
              pushed |-> r.pushed, first |-> ~hist.fed,
              produced |-> before,
              same |-> r.ret = rs.ret /\ r.pushed = rs.pushed,
              firstpts |-> IF ~r.init /\ Pending(StreamOf(filter, r.encode))
                           THEN hist.owed ELSE up.pos + 1,
              initfailed |-> initfailed,
              dead |-> /\ r.exit # "not_supported"
                       /\ IF r.init THEN initfailed
                          ELSE ~StreamOf(filter, r.encode).live]
  /\ up' = [up EXCEPT
              !.rest = SubSeq(up.rest, k + 1, Len(up.rest)),
              !.pos = @ + k,
              !.fin = IF r.exit = "eos" THEN "eos"
                      ELSE IF r.exit = "decompress_error" THEN "error"
                      ELSE @,
              !.extra = @ \/ up.rest = <<>>,
              !.fresh = IF up.started THEN @ ELSE r.init,
              !.started = TRUE,
              !.encodes = @ \cup {r.encode}]
  /\ hist' = [hist EXCEPT
                !.fed = TRUE,
                !.session_out = before + RunsLen(pay),
                !.payload = CatRuns(@, pay),
                !.owed = IF ~Pending(StreamOf(r.filter, r.encode)) THEN 0
                         ELSE IF ~r.init /\ StreamOf(r.filter, r.encode)
                                              = StreamOf(filter, r.encode)
                         THEN @ ELSE up.pos + 1]

\* the payload of the buffers among the items pushed
PushedPayload(pushed) ==
  CatMems([i \in 1..Len(pushed) |->
             IF pushed[i].kind = "buffer" THEN Payload(pushed[i]) ELSE <<>>])

ChainPushed(k, r, rs, fault) ==
  ChainDone(k, r, rs, PushedPayload(r.pushed),
            IF r.init THEN 0 ELSE hist.session_out,
            r.init /\ fault = "init")

ChainBuffer(buf, k, fault, failat, junk) ==
  ChainPushed(k, gst_gzdec_chain(filter, buf, fault, failat, junk),
              gst_gzdec_chain(shadow, buf, fault, failat, junk), fault)

\* the chain function is called with the next k symbols of the stream
Chain(k, fault, failat, junk) ==
  /\ Running
  /\ ChainBuffer([data |-> SubSeq(up.rest, 1, k), pts |-> up.pos + 1,
                  offset |-> up.pos], k, fault, failat, junk)
  /\ UNCHANGED alive

\* the sink event function is called with a caps event named label
SinkEventCaps(label) ==
  /\ Running
  /\ LET r == gst_gzdec_sink_event(filter, label)
         rs == gst_gzdec_sink_event(shadow, label)
     IN
     /\ filter' = r.filter
     /\ shadow' = rs.filter
     /\ last' = [NoCall EXCEPT !.op = "caps", !.handled = r.ret,
                               !.label = label,
                               !.before = filter.in_progress,
                               !.same = r.ret = rs.ret]
     /\ up' = [up EXCEPT !.announced = @ \/ (~up.started /\ r.ret)]
     /\ hist' = [hist EXCEPT !.accepted = @ \/ r.ret]
  /\ UNCHANGED alive

\* the sink event function is called with another event, the end-of-stream
\* event the upstream peer sends after its last buffer:
\* gst_pad_event_default forwards it downstream
SinkEventOther ==
  /\ Running
  /\ up.rest = <<>>
  /\ last' = [NoCall EXCEPT !.op = "event", !.handled = TRUE,
                            !.before = filter.in_progress,
                            !.pushed = <<EventItem("GST_EVENT_EOS")>>]
  /\ UNCHANGED <<filter, alive, up, hist, shadow>>

\* the instance is destroyed: the class installs no dispose, finalize or
\* change_state method, so nothing of the element runs
Teardown ==
  /\ Running
  /\ alive' = FALSE
  /\ last' = [NoCall EXCEPT !.op = "teardown", !.before = filter.in_progress]
  /\ UNCHANGED <<filter, up, hist, shadow>>

\* the upstream peer opens another compressed stream
StartStream(fam, P, corrupt) ==
  /\ Running
  /\ up.rest = <<>>
  /\ up.n < MaxStreams
  /\ up' = Upstream(up.n + 1, fam, P, corrupt, up)
  /\ shadow' = gst_gzdec_init
  /\ hist' = [hist EXCEPT !.payload = <<>>]
  /\ last' = [NoCall EXCEPT !.op = "start", !.before = filter.in_progress]
  /\ UNCHANGED <<filter, alive>>

ChainNext ==
  \E k \in 0..Len(up.rest) :
    Chain(k, "none", 0, NoBuffer)

Next ==
  \/ ChainNext
  \/ \E label \in Labels : SinkEventCaps(label)
  \/ SinkEventOther
  \/ Teardown

Spec == Init /\ [][Next]_vars

\* several streams, one after the other, on one instance, each delivered in
\* buffers that are not empty
ChainData == \E k \in 1..Len(up.rest) : Chain(k, "none", 0, NoBuffer)

NextStreams ==
  \/ ChainData
  \/ \E label \in Labels : SinkEventCaps(label)
  \/ \E fam \in Families, n \in 0..(MaxRuns - Len(up.payload)) :
       \E P \in PayloadsOf(n) :
         \E corrupt \in 0..(n + 2) : StartStream(fam, P, corrupt)

SpecStreams == Init /\ [][NextStreams]_vars

\* one stream on an instance whose environment fails: "bufmap" is
\* gst_buffer_map failing, "memmap" gst_memory_map failing in iteration failat
\* of the loop, "init" the native initialisation failing, "stall" the decoder
\* making no progress in iteration failat
Faults == {"none", "bufmap", "memmap", "init", "stall"}

\* what the chain function's outbuf may hold when encode did not assign it
Junk == {NoBuffer, StaleBuffer, NullBuffer}

ChainFault ==
  \E k \in 1..Len(up.rest), fault \in Faults :
    \E failat \in 1..MaxFail, junk \in Junk : Chain(k, fault, failat, junk)

NextFaults ==
  \/ ChainFault
  \/ \E label \in Labels : SinkEventCaps(label)

SpecFaults == Init /\ [][NextFaults]_vars

(***************************************************************************)
(* The claims.                                                             *)
(***************************************************************************)
\* the stream was given whole, undamaged, to a session that began with its
\* first buffer and ran the back-end of its family throughout
WholeStreamDecoded ==
  /\ up.rest = <<>>
  /\ up.started
  /\ up.clean
  /\ up.fresh
  /\ up.encodes = {EncodeOf(up.fam)}

\* C1: chunk-invariance.  However compress_F(P) is cut into input buffers,
\* once all of them went through the chain function the payloads of the
\* output buffers pushed downstream, concatenated in order, are exactly P.
ChunkInvariance == WholeStreamDecoded => hist.payload = up.payload

\* C1, witness: a bzip2 payload of two runs, one of them filling a whole
\* output block, has been decoded from several input buffers, the last of
\* which delivered payload bytes.
ChunkInvarianceWitness ==
  /\ WholeStreamDecoded
  /\ up.fam = "bzip2"
  /\ Len(up.payload) = 2
  /\ RunsLen(up.payload) > OUT_BUF_SIZE
  /\ last.op = "chain"
  /\ last.exit = "eos"
  /\ last.pushed[1].pts > 1
  /\ Payload(last.pushed[1]) # <<>>
  /\ hist.payload = up.payload

\* C2: offset contiguity.  The offset of every output buffer pushed
\* downstream equals the number of decompressed bytes the session pushed
\* before it: 0 for the first buffer of a session, and the previous offset
\* plus the previous payload length for each later one.
OffsetContiguity ==
  last.op = "chain" =>
    \A i \in 1..Len(last.pushed) :
      last.pushed[i].kind = "buffer" => last.pushed[i].offset = last.produced

\* C3: end-of-stream marker.  A chain call in which the back-end reports End
\* pushes an end-of-stream marker downstream, after its data buffer.
EosMarkerPushed ==
  (last.op = "chain" /\ last.exit = "eos") =>
    /\ last.pushed # <<>>
    /\ last.pushed[Len(last.pushed)].kind = "GST_EVENT_EOS"

\* C4: a decode error is reported.  A chain call in which the decoder
\* returned an error status returns an error to the host, never ok.
DecodeErrorReported ==
  (last.op = "chain" /\ last.exit = "decompress_error") =>
    last.flow \notin {GST_FLOW_OK, GST_FLOW_EOS}

\* C5: session reset on decode error.  After a chain call in which the
\* back-end returned an error the session is uninitialized and its decoder
\* torn down, so that the next buffer starts with the back-end's init.
SessionResetOnError ==
  (last.op = "chain" /\ last.exit = "decompress_error") =>
    /\ ~filter.in_progress
    /\ ~filter.zlib_stream.live
    /\ ~filter.bzlib_stream.live

\* C6: announcements are only bound while uninitialized.  A caps event that
\* arrives while in_progress is TRUE is rejected and changes nothing of the
\* instance.
BoundOnlyWhileUninitialized ==
  [][(last'.op = "caps" /\ filter.in_progress) =>
       (~last'.handled /\ filter' = filter)]_vars

KnownLabels == {"application/x-gzip", "application/x-bzip2"}

\* C7: an unknown label leaves the state unchanged.  A caps event whose label
\* is neither application/x-gzip nor application/x-bzip2 is rejected (the
\* handler returns FALSE) and leaves the back-end, in_progress and both
\* decoders as they were, whatever the state of the session.
UnknownLabelRejected ==
  [][(last'.op = "caps" /\ last'.label \notin KnownLabels) =>
       (~last'.handled /\ filter' = filter)]_vars

\* C7, witness: an unknown label was rejected in the middle of a bzip2
\* session.
UnknownLabelWitness ==
  /\ last.op = "caps"
  /\ last.label = "application/x-7z"
  /\ ~last.handled
  /\ filter.in_progress
  /\ filter.encode = "bzlib_encode"
  /\ filter.bzlib_stream.live
  /\ filter.bzlib_stream.mode # "HEAD"

\* the last call was the first data buffer of an instance that had accepted
\* no format announcement
FirstBufferUnannounced ==
  last.op = "chain" /\ last.first /\ ~hist.accepted

FormatIsolation ==
  (/\ up.n >= 2
   /\ up.prevfin \in {"eos", "error"}
   /\ ~up.prevextra
   /\ up.announced) => last.same

\* C10: teardown releases the decoder.  Once the instance is torn down the
\* session is uninitialized and no native decoder is left allocated.
TeardownReleasesDecoder ==
  ~alive =>
    /\ ~filter.in_progress
    /\ ~filter.zlib_stream.live
    /\ ~filter.bzlib_stream.live

\* C11: metadata propagation.  Every output buffer pushed with payload
\* carries the timestamp of the first input buffer whose compressed bytes
\* contributed to that payload.
TimestampOfFirstContributor ==
  last.op = "chain" =>
    \A i \in 1..Len(last.pushed) :
      (last.pushed[i].kind = "buffer" /\ Payload(last.pushed[i]) # <<>>)
        => last.pushed[i].pts = last.firstpts

\* C12: full-segment re-iteration.  When a chain call returns, the decoder
\* it ran holds no decoded bytes that it could already deliver.
NothingLeftPending ==
  (last.op = "chain" /\ last.exit = "ok") =>
    ~Pending(StreamOf(filter, last.encode))

\* C13: the drain loop terminates on zero progress.  Every chain call
\* returns, also when a decode call reports a status that is neither End nor
\* an error having consumed no input and produced no output.
ChainCallReturns ==
  last.op = "chain" => last.exit # "hang"

\* C14: exactly-once teardown.  The chain call in which a stream ends, by End
\* or by an error, leaves the decoder it ran torn down, and the native end
\* function is never called on a decoder that was torn down already.
TornDownExactlyOnce ==
  last.op = "chain" =>
    /\ (last.exit \in {"eos", "decompress_error"}
          => ~StreamOf(filter, last.encode).live)
    /\ ~(last.exit = "decompress_error" /\ last.dead)

\* C15: initialized implies a live decoder.  Whenever in_progress is TRUE the
\* native decoder of the selected back-end has been initialized and not yet
\* torn down.
InitializedImpliesLive ==
  filter.in_progress => StreamOf(filter, filter.encode).live

\* C16: init failure is surfaced.  A chain call in which the native
\* initialisation of the selected back-end fails leaves in_progress FALSE,
\* calls no decode, pushes nothing and returns not_negotiated.
InitFailureSurfaced ==
  (last.op = "chain" /\ last.initfailed) =>
    /\ ~filter.in_progress
    /\ last.exit = "not_supported"
    /\ last.pushed = <<>>
    /\ last.flow = GST_FLOW_NOT_NEGOTIATED

\* C17: empty output is not pushed.  A chain call pushes at most one output
\* buffer, and none when the buffer it assembled holds no block.
EmptyOutputNotPushed ==
  last.op = "chain" =>
    /\ Len(last.pushed) <= 1
    /\ \A i \in 1..Len(last.pushed) : last.pushed[i].mems # <<>>

\* C18: resource failure pushes nothing.  A chain call in which mapping the
\* input buffer fails before any decode call pushes nothing downstream and
\* returns a flow error.
ResourceFailurePushesNothing ==
  (last.op = "chain" /\ last.exit = "buffer_map") =>
    /\ last.pushed = <<>>
    /\ last.flow = GST_FLOW_ERROR

\* C19: segment size bounds.  Every block appended to an output buffer holds
\* between 1 and OUT_BUF_SIZE bytes.
SegmentSizeBounds ==
  last.op = "chain" =>
    \A i \in 1..Len(last.pushed) :
      \A j \in 1..Len(last.pushed[i].mems) :
        /\ RunsLen(last.pushed[i].mems[j]) >= 1
        /\ RunsLen(last.pushed[i].mems[j]) <= OUT_BUF_SIZE

\* C20: no double init.  A chain call that calls the back-end's init finds
\* the native decoder of that back-end not live: between two init calls on a
\* back-end its decoder was torn down.
NoDoubleInit ==
  [][(last'.op = "chain" /\ last'.init) =>
       ~StreamOf(filter, filter.encode).live]_vars

\* C20, witness: after a stream that ended by End, a later chain call
\* initialised the back-end's decoder a second time.
NoDoubleInitWitness ==
  /\ last.op = "chain"
  /\ last.init
  /\ ~last.first
  /\ up.fin = "eos"
  /\ filter.in_progress
  /\ StreamOf(filter, last.encode).live

=============================================================================
